---- MODULE Spec2Model ----
(***************************************************************************)
(* FAOA Annual Report Generator (app.py).                                  *)
(*                                                                         *)
(* The Streamlit script is re-executed from top to bottom on every user    *)
(* interaction; st.stop() ends the current execution.  The model has two   *)
(* specifications over the same definitions:                               *)
(*   Spec    the browser session: every action is one complete script run  *)
(*           triggered by one widget interaction;                          *)
(*   FnSpec  the pipeline functions applied one after the other to inputs  *)
(*           drawn from bounded sets (including arguments the widgets      *)
(*           cannot produce, such as a negative amount).                   *)
(*                                                                         *)
(* Money is counted in integer cents.  Strings are TLA+ strings; the en    *)
(* dash of the category headers is written EnDash.                         *)
(***************************************************************************)
EXTENDS Integers, Sequences, FiniteSets, TLC

VARIABLES
    session_state,       \* st.session_state: function from the keys present to values
    uploaded_files,      \* value of the file_uploader widget (sequence of files)
    editor_edits,        \* edits held by the data_editor widget: row position -> Adjusted
    editor_data,         \* the frame the data_editor widget was last rendered with
    pc,                  \* "session" in Spec; position in the pipeline in FnSpec
    stopped_at,          \* where the last run called st.stop() ("" = ran to the end)
    year,                \* year returned by validate_year in the last run
    full_df,             \* merged dataset of the last run
    gala_ticket_amount,  \* value of the number_input in the last run
    raw_summary_df,      \* frame returned by build_summary_table (line 577)
    summary_df,          \* frame returned by apply_gala_ticket_reclass (line 580)
    edited_summary_df,   \* frame returned by st.data_editor (line 589)
    report_built,        \* build_annual_report was invoked in the last run
    preview_text,        \* text shown in the preview / offered for download (<<>> = none)
    download_year        \* year in the download file names (0 = no download offered)

vars == <<session_state, uploaded_files, editor_edits, editor_data, pc, stopped_at,
          year, full_df, gala_ticket_amount, raw_summary_df, summary_df,
          edited_summary_df, report_built, preview_text, download_year>>

(***************************************************************************)
(* Bounds of the model.                                                    *)
(***************************************************************************)
MaxFnFiles == 2          \* files per upload in FnSpec
MaxSessionFiles == 2     \* files per upload in Spec
MaxEditRow == 1          \* summary rows the user edits in Spec

(***************************************************************************)
(* Constants / canonical labels.                                           *)
(***************************************************************************)
REVENUE_CODES == {"1", "2", "3", "4", "6", "7", "9"}
EXPENSE_CODES == {"14", "15", "16", "18", "19", "22", "23"}
ALL_CODES == REVENUE_CODES \cup EXPENSE_CODES

CATEGORY_LABELS ==
    [c \in ALL_CODES |->
        CASE c = "1"  -> "Gifts, grants, contributions received"
          [] c = "2"  -> "Membership fees received"
          [] c = "3"  -> "Gross sales of inventory"
          [] c = "4"  -> "Other revenue"
          [] c = "6"  -> "Investment income"
          [] c = "7"  -> "Other income"
          [] c = "9"  -> "Gross receipts from activities related to exempt purpose"
          [] c = "14" -> "Professional fees and other payments to independent contractors"
          [] c = "15" -> "Occupancy, rent, utilities, and maintenance"
          [] c = "16" -> "Disbursements to/for members"
          [] c = "18" -> "Office expenses"
          [] c = "19" -> "Travel"
          [] c = "22" -> "Payments to affiliates"
          [] c = "23" -> "Other expenses"]

HARD_REQUIRED_COLUMNS == {"Year", "Month", "Amount", "IRS Category Code", "IRS Category Label"}

OPTIONAL_STRING_COLUMNS ==
    {"Date", "Description", "Itemization Label", "Member/Event Label",
     "Event Location", "Event Purpose", "Sponsor Name"}
OPTIONAL_BOOL_COLUMNS == {"Potential Sponsorship", "Needs Further Investigation"}

MAX_UPLOADED_FILES == 12

EnDash == "--"          \* stands for U+2013

(***************************************************************************)
(* Cells of an uploaded CSV.  A numeric cell is [ok, val]: ok is FALSE     *)
(* when pd.to_numeric(errors="coerce") yields NaN.  A text cell is a       *)
(* string; NA is the empty cell (NaN after read_csv).                      *)
(***************************************************************************)
Num(v) == [ok |-> TRUE, val |-> v]
NotANumber == [ok |-> FALSE, val |-> 0]
NA == "<NA>"

\* str.strip() on the padded cells that occur in the uploads
Stripped == (" Acme " :> "Acme") @@ ("  " :> "") @@ (" yes " :> "yes")
Strip(s) == IF s \in DOMAIN Stripped THEN Stripped[s] ELSE s

\* str.lower() on the capitalised cells that occur in the uploads
Lowered == ("TRUE" :> "true") @@ ("Yes" :> "yes") @@ ("Y" :> "y")
Lower(s) == IF s \in DOMAIN Lowered THEN Lowered[s] ELSE s

\* pd.to_numeric / int() on category code strings
ToNumeric ==
    [c \in ALL_CODES \cup {"5"} |->
        CASE c = "1" -> 1 [] c = "2" -> 2 [] c = "3" -> 3 [] c = "4" -> 4
          [] c = "5" -> 5 [] c = "6" -> 6 [] c = "7" -> 7 [] c = "9" -> 9
          [] c = "14" -> 14 [] c = "15" -> 15 [] c = "16" -> 16 [] c = "18" -> 18
          [] c = "19" -> 19 [] c = "22" -> 22 [] c = "23" -> 23]

\* Ascending order of Python str comparison on the text values that are sort keys
STRING_ORDER == <<"", "2024-03-01", "2024-05-01", "Acme", "Beta", "Gala",
                  "Paper", "Picnic", "Tickets", "UNLABELED">>
StrRank(s) == CHOOSE i \in DOMAIN STRING_ORDER : STRING_ORDER[i] = s

Abs(n) == IF n < 0 THEN -n ELSE n
Range(s) == {s[i] : i \in DOMAIN s}

RECURSIVE SumAmount(_)
SumAmount(rows) ==
    IF rows = <<>> THEN 0 ELSE Head(rows).Amount + SumAmount(Tail(rows))

RECURSIVE SumRaw(_)
SumRaw(rows) ==
    IF rows = <<>> THEN 0 ELSE Head(rows).Raw + SumRaw(Tail(rows))

RECURSIVE SumAdjusted(_)
SumAdjusted(rows) ==
    IF rows = <<>> THEN 0 ELSE Head(rows).Adjusted + SumAdjusted(Tail(rows))

RECURSIVE Flatten(_)
Flatten(ss) == IF ss = <<>> THEN <<>> ELSE Head(ss) \o Flatten(Tail(ss))

(***************************************************************************)
(* format_currency: f"${value:,.2f}" of a value given in cents.            *)
(***************************************************************************)
Pad2(k) == IF k < 10 THEN "0" \o ToString(k) ELSE ToString(k)
Pad3(k) == IF k < 10 THEN "00" \o ToString(k)
           ELSE IF k < 100 THEN "0" \o ToString(k) ELSE ToString(k)

RECURSIVE Thousands(_)
Thousands(n) ==
    IF n < 1000 THEN ToString(n)
    ELSE Thousands(n \div 1000) \o "," \o Pad3(n % 1000)

format_currency(value) ==
    "$" \o (IF value < 0 THEN "-" ELSE "")
        \o Thousands(Abs(value) \div 100) \o "." \o Pad2(Abs(value) % 100)

(***************************************************************************)
(* ensure_columns.                                                         *)
(***************************************************************************)
clean_str(cell) == IF cell = NA THEN "" ELSE Strip(cell)

coerce_bool(cell) ==
    Lower(Strip(IF cell = NA THEN "nan" ELSE cell)) \in {"true", "1", "yes", "y"}

\* The st.stop() that ensure_columns reaches on file f ("" = none)
ensure_columns_stop(f) ==
    IF HARD_REQUIRED_COLUMNS \ f.columns # {} THEN "missing_columns"
    ELSE IF \E i \in DOMAIN f.rows : ~f.rows[i].Year.ok THEN "invalid_year"
    ELSE IF \E i \in DOMAIN f.rows : ~f.rows[i].Month.ok THEN "invalid_month"
    ELSE IF \E i \in DOMAIN f.rows : ~f.rows[i].Amount.ok THEN "invalid_amount"
    ELSE ""

OptionalText(f, r, col, cell) == IF col \in f.columns THEN clean_str(cell) ELSE ""
OptionalBool(f, r, col, cell) == IF col \in f.columns THEN coerce_bool(cell) ELSE FALSE

\* The normalised rows ensure_columns returns for file f
ensure_columns(f) ==
    [i \in DOMAIN f.rows |->
        LET r == f.rows[i] IN
        [Year      |-> r.Year.val,
         Month     |-> r.Month.val,
         Amount    |-> r.Amount.val,
         Code      |-> clean_str(r.Code),
         Label     |-> clean_str(r.Label),
         Date      |-> OptionalText(f, r, "Date", r.Date),
         Description |-> OptionalText(f, r, "Description", r.Description),
         Item      |-> OptionalText(f, r, "Itemization Label", r.Item),
         Event     |-> OptionalText(f, r, "Member/Event Label", r.Event),
         Location  |-> OptionalText(f, r, "Event Location", r.Location),
         Purpose   |-> OptionalText(f, r, "Event Purpose", r.Purpose),
         Sponsor   |-> OptionalText(f, r, "Sponsor Name", r.Sponsor),
         Potential |-> OptionalBool(f, r, "Potential Sponsorship", r.Potential),
         Needs     |-> OptionalBool(f, r, "Needs Further Investigation", r.Needs)]]

(***************************************************************************)
(* Upload loop (lines 507-526): the first st.stop() reached, and the       *)
(* concatenation of the normalised files.                                  *)
(***************************************************************************)
RECURSIVE first_file_stop(_)
first_file_stop(files) ==
    IF files = <<>> THEN ""
    ELSE IF ensure_columns_stop(Head(files)) # "" THEN ensure_columns_stop(Head(files))
    ELSE first_file_stop(Tail(files))

upload_stop(files) ==
    IF files = <<>> THEN "no_files"
    ELSE IF Len(files) > MAX_UPLOADED_FILES THEN "too_many_files"
    ELSE first_file_stop(files)

concat_files(files) == Flatten([i \in DOMAIN files |-> ensure_columns(files[i])])

(***************************************************************************)
(* validate_year, validate_categories.                                     *)
(***************************************************************************)
Years(df) == {df[i].Year : i \in DOMAIN df}

\* Variant of validate_year_stops that only rejects a dataset without any year
validate_year_stops_only_empty(df) == Years(df) = {}

validate_year_stops(df) == Cardinality(Years(df)) # 1

validate_year(df) == CHOOSE y \in Years(df) : TRUE

validate_categories_stops(df) ==
    {df[i].Code : i \in DOMAIN df} \ ALL_CODES # {}

\* cat2_raw_total (line 544)
cat2_raw_total(df) == SumAmount(SelectSeq(df, LAMBDA r : r.Code = "2"))

(***************************************************************************)
(* sort_values("__code_int") with the default kind="quicksort": rows of    *)
(* equal key may come out in any order.  The result is the set of the      *)
(* orders a build can produce.  rows is a set of summary rows.             *)
(***************************************************************************)
RECURSIVE Arrangements(_)
Arrangements(S) ==
    IF S = {} THEN {<<>>}
    ELSE UNION {{<<x>> \o t : t \in Arrangements(S \ {x})} : x \in S}

RECURSIVE sort_values(_)
sort_values(rows) ==
    IF rows = {} THEN {<<>>}
    ELSE LET k == CHOOSE k \in {ToNumeric[r.Code] : r \in rows} :
                      \A r \in rows : k <= ToNumeric[r.Code]
             low == {r \in rows : ToNumeric[r.Code] = k}
         IN  {a \o b : a \in Arrangements(low), b \in sort_values(rows \ low)}

(***************************************************************************)
(* build_summary_table.                                                    *)
(***************************************************************************)
\* Variant of group_total that sums over the code alone, whatever the label
group_total_by_code(df, code, label) ==
    SumAmount(SelectSeq(df, LAMBDA r : r.Code = code))

group_total(df, code, label) ==
    SumAmount(SelectSeq(df, LAMBDA r : r.Code = code /\ r.Label = label))

summary_groups(df) ==
    {[Code     |-> df[i].Code,
      Label    |-> df[i].Label,
      Raw      |-> group_total(df, df[i].Code, df[i].Label),
      Adjusted |-> group_total(df, df[i].Code, df[i].Label)] : i \in DOMAIN df}

\* Variant of build_summary_table that keeps the frame of the previous run when there
\* is one, instead of grouping the merged rows again
build_summary_table_kept(df) ==
    IF summary_df # <<>> THEN {summary_df} ELSE sort_values(summary_groups(df))

build_summary_table(df) == sort_values(summary_groups(df))

(***************************************************************************)
(* ensure_category_rows_exist.                                             *)
(***************************************************************************)
ensure_category_rows_exist(summary, codes_needed) ==
    LET existing == {summary[i].Code : i \in DOMAIN summary}
        missing  == {c \in codes_needed : c \notin existing}
        new_rows == {[Code |-> c, Label |-> CATEGORY_LABELS[c],
                      Raw |-> 0, Adjusted |-> 0] : c \in missing}
    IN  IF missing = {} THEN {summary}
        ELSE sort_values(Range(summary) \cup new_rows)

(***************************************************************************)
(* apply_gala_ticket_reclass.  The tolerance 1e-9 dollars is below one     *)
(* cent, so on cent amounts "gala_amount > raw2 + 1e-9" is gala > raw2.    *)
(***************************************************************************)
FirstIndex(summary, code) ==
    CHOOSE i \in DOMAIN summary :
        summary[i].Code = code /\ \A j \in 1..(i - 1) : summary[j].Code # code

\* raw2 (line 266)
raw2_of(summary) == summary[FirstIndex(summary, "2")].Raw

\* The st.stop() reached by the guards of lines 258 and 269 ("" = none)
reclass_stop(summary, gala_amount) ==
    IF gala_amount < 0 THEN "gala_negative"
    ELSE IF gala_amount > raw2_of(summary) THEN "gala_exceeds_raw"
    ELSE ""

\* Variant of apply_adjustment that credits category 9 without debiting category 2
apply_adjustment_credit_only(summary, gala_amount) ==
    LET i9 == FirstIndex(summary, "9")
    IN  [summary EXCEPT ![i9].Adjusted = @ + gala_amount]

\* The adjustment of lines 277-278
apply_adjustment(summary, gala_amount) ==
    LET i2 == FirstIndex(summary, "2")
        s1 == [summary EXCEPT ![i2].Adjusted = @ - gala_amount]
        i9 == FirstIndex(s1, "9")
    IN  [s1 EXCEPT ![i9].Adjusted = @ + gala_amount]

\* Outcomes of the call: where it stopped and, when it returned, the frame
apply_gala_ticket_reclass(summary, gala_amount) ==
    {[stop |-> reclass_stop(s, gala_amount),
      df   |-> IF reclass_stop(s, gala_amount) = ""
               THEN apply_adjustment(s, gala_amount) ELSE <<>>] :
        s \in ensure_category_rows_exist(summary, {"2", "9"})}

(***************************************************************************)
(* get_sorted_category_rows: filter, then sort_values (ties in any order). *)
(***************************************************************************)
get_sorted_category_rows(summary, desired_codes) ==
    sort_values({r \in Range(summary) : r.Code \in desired_codes})

\* sorted(codes, key=lambda x: int(x))
RECURSIVE sorted_codes(_)
sorted_codes(codes) ==
    IF codes = {} THEN <<>>
    ELSE LET c == CHOOSE c \in codes : \A d \in codes : ToNumeric[c] <= ToNumeric[d]
         IN  <<c>> \o sorted_codes(codes \ {c})

\* sort_values on a column of distinct strings
RECURSIVE sorted_strings(_)
sorted_strings(S) ==
    IF S = {} THEN <<>>
    ELSE LET s == CHOOSE s \in S : \A t \in S : StrRank(s) <= StrRank(t)
         IN  <<s>> \o sorted_strings(S \ {s})

RemoveAt(s, i) == SubSeq(s, 1, i - 1) \o SubSeq(s, i + 1, Len(s))

\* cat16.sort_values(["Date", "Member/Event Label"]): lexsort, ties keep their order
EventBefore(a, b) ==
    \/ StrRank(a.Date) < StrRank(b.Date)
    \/ StrRank(a.Date) = StrRank(b.Date) /\ StrRank(a.Event) < StrRank(b.Event)

RECURSIVE sort_events(_)
sort_events(rows) ==
    IF rows = <<>> THEN <<>>
    ELSE LET i == CHOOSE i \in DOMAIN rows :
                      /\ \A j \in DOMAIN rows : ~EventBefore(rows[j], rows[i])
                      /\ \A j \in 1..(i - 1) : EventBefore(rows[i], rows[j])
         IN  <<rows[i]>> \o sort_events(RemoveAt(rows, i))

rows_of_code(df, code) == SelectSeq(df, LAMBDA r : r.Code = code)

(***************************************************************************)
(* build_annual_report, section by section.  The report is the sequence of *)
(* its lines; "\n".join(lines) is that sequence read as one text.          *)
(***************************************************************************)
header_lines(y) ==
    <<ToString(y) \o " Foreign Area Officer Association Annual Financial Report",
      "Foreign Area Officer Association (FAOA)",
      "------------------------------------------------------------------------",
      "">>

summary_line(r) ==
    "  " \o r.Code \o " - " \o r.Label \o ": " \o format_currency(r.Adjusted)

\* rows: the revenue rows as get_sorted_category_rows returned them
revenue_lines(rows) ==
    <<"Revenue Categories (using Adjusted totals)", "", "REVENUE CATEGORIES">>
    \o (IF rows = <<>> THEN <<"  (No revenue recorded for this period.)">>
        ELSE [i \in DOMAIN rows |-> summary_line(rows[i])])
    \o <<"">>

expense_lines(rows) ==
    <<"Expense Categories (using Adjusted totals)", "", "EXPENSE CATEGORIES">>
    \o (IF rows = <<>> THEN <<"  (No expenses recorded for this period.)">>
        ELSE [i \in DOMAIN rows |-> summary_line(rows[i])])

detail_line(label, amount) == "    " \o label \o ": " \o format_currency(amount)

\* groupby("Sponsor Name")["Amount"].sum() over the rows with a sponsor name
sponsor_lines(cat1) ==
    LET named == SelectSeq(cat1, LAMBDA r : Strip(r.Sponsor) # "")
        names == sorted_strings({named[i].Sponsor : i \in DOMAIN named})
    IN  [k \in DOMAIN names |->
            detail_line(names[k],
                SumAmount(SelectSeq(named, LAMBDA r : r.Sponsor = names[k])))]

\* clean_str_series(...).replace("", "UNLABELED")
item_label(r) == IF clean_str(r.Item) = "" THEN "UNLABELED" ELSE clean_str(r.Item)

\* groupby("Itemization Label")["Amount"].sum().sort_values("Itemization Label")
item_lines(cat_df) ==
    LET labels == sorted_strings({item_label(cat_df[i]) : i \in DOMAIN cat_df})
    IN  [k \in DOMAIN labels |->
            detail_line(labels[k],
                SumAmount(SelectSeq(cat_df, LAMBDA r : item_label(r) = labels[k])))]

\* Variant of category1_lines that falls back to the itemization labels
category1_lines_item_fallback(rev_df) ==
    LET cat1 == rows_of_code(rev_df, "1")
    IN  IF cat1 = <<>> THEN <<>>
        ELSE <<"  Category 1 " \o EnDash \o " " \o cat1[1].Label \o ":">>
             \o (IF \E i \in DOMAIN cat1 : Strip(cat1[i].Sponsor) # ""
                 THEN sponsor_lines(cat1)
                 ELSE item_lines(cat1))

\* Lines 373-388
category1_lines(rev_df) ==
    LET cat1 == rows_of_code(rev_df, "1")
    IN  IF cat1 = <<>> THEN <<>>
        ELSE <<"  Category 1 " \o EnDash \o " " \o cat1[1].Label \o ":">>
             \o (IF \E i \in DOMAIN cat1 : Strip(cat1[i].Sponsor) # ""
                 THEN sponsor_lines(cat1)
                 ELSE <<"    (No sponsor names recorded.)">>)

\* Variant of revenue_category_lines that skips every category without rows, 9 included
revenue_category_lines_skip_empty(rev_df, code, gala) ==
    LET cat_df == rows_of_code(rev_df, code)
    IN  IF cat_df = <<>> THEN <<>>
        ELSE <<"  Category " \o code \o " " \o EnDash \o " " \o cat_df[1].Label \o ":">>
             \o (IF code = "9"
                 THEN <<"    Gala Tickets: " \o format_currency(gala)>> ELSE <<>>)
             \o item_lines(cat_df)

\* One iteration of the loop of lines 391-421
revenue_category_lines(rev_df, code, gala) ==
    LET cat_df == rows_of_code(rev_df, code)
        label  == IF cat_df # <<>> THEN cat_df[1].Label ELSE CATEGORY_LABELS[code]
    IN  IF cat_df = <<>> /\ code # "9" THEN <<>>
        ELSE <<"  Category " \o code \o " " \o EnDash \o " " \o label \o ":">>
             \o (IF code = "9"
                 THEN <<"    Gala Tickets: " \o format_currency(gala)>> ELSE <<>>)
             \o (IF cat_df # <<>> THEN item_lines(cat_df) ELSE <<>>)

itemized_revenue_lines(df, gala) ==
    LET rev_df == SelectSeq(df, LAMBDA r : r.Code \in REVENUE_CODES)
        codes  == sorted_codes(REVENUE_CODES \ {"1"})
    IN  <<"", "Itemized Revenue (BY IRS CATEGORY)", "", "ITEMIZED REVENUE">>
        \o (IF rev_df = <<>> /\ gala = 0
            THEN <<"  (No itemized revenue entries.)">>
            ELSE category1_lines(rev_df)
                 \o Flatten([k \in DOMAIN codes |->
                                revenue_category_lines(rev_df, codes[k], gala)]))

\* Lines 435-449
category16_lines(exp_df) ==
    LET cat16 == sort_events(rows_of_code(exp_df, "16"))
    IN  IF cat16 = <<>> THEN <<>>
        ELSE <<"  Category 16 " \o EnDash \o " " \o rows_of_code(exp_df, "16")[1].Label
                   \o " (individual events):",
               "    Date | Event | Location | Purpose | Amount">>
             \o [i \in DOMAIN cat16 |->
                    "    " \o cat16[i].Date \o " | " \o cat16[i].Event \o " | "
                    \o cat16[i].Location \o " | " \o cat16[i].Purpose \o " | "
                    \o format_currency(cat16[i].Amount)]

\* Variant of expense_category_lines without the skip of all-blank categories
expense_category_lines_no_skip(exp_df, code) ==
    LET cat_df == rows_of_code(exp_df, code)
    IN  IF cat_df = <<>> THEN <<>>
        ELSE <<"  Category " \o code \o " " \o EnDash \o " " \o cat_df[1].Label
                   \o " (consolidated by type):">>
             \o item_lines(cat_df)

\* One iteration of the loop of lines 452-472
expense_category_lines(exp_df, code) ==
    LET cat_df == rows_of_code(exp_df, code)
    IN  IF cat_df = <<>> THEN <<>>
        ELSE IF ~(\E i \in DOMAIN cat_df : Strip(cat_df[i].Item) # "") THEN <<>>
        ELSE <<"  Category " \o code \o " " \o EnDash \o " " \o cat_df[1].Label
                   \o " (consolidated by type):">>
             \o item_lines(cat_df)

itemized_expense_lines(df) ==
    LET exp_df == SelectSeq(df, LAMBDA r : r.Code \in EXPENSE_CODES)
        codes  == sorted_codes(EXPENSE_CODES \ {"16"})
        detail == category16_lines(exp_df)
                  \o Flatten([k \in DOMAIN codes |->
                                 expense_category_lines(exp_df, codes[k])])
    IN  <<"", "Itemized Expenses (BY IRS CATEGORY)", "", "ITEMIZED EXPENSES">>
        \o (IF exp_df = <<>> \/ detail = <<>>
            THEN <<"  (No itemized expense entries.)">>
            ELSE detail)

flagged_lines(df) ==
    LET flagged == SelectSeq(df, LAMBDA r : r.Needs = TRUE)
    IN  <<"", "NEEDS FURTHER INVESTIGATION (Treasurer Flagged)">>
        \o (IF flagged = <<>> THEN <<"  (None flagged this period.)">>
            ELSE <<"  Count of flagged transactions: " \o ToString(Len(flagged)),
                   "  Net total of flagged amounts: "
                       \o format_currency(SumAmount(flagged))>>)
        \o <<"", "End of report.">>

\* The report for one order of the summary rows
report_lines(y, revenue_summary, expense_summary, df, gala) ==
    header_lines(y) \o revenue_lines(revenue_summary) \o expense_lines(expense_summary)
    \o itemized_revenue_lines(df, gala) \o itemized_expense_lines(df)
    \o flagged_lines(df)

\* The texts a call can return (one per tie order of get_sorted_category_rows)
build_annual_report(y, summary, df, gala) ==
    {report_lines(y, rv, ex, df, gala) :
        rv \in get_sorted_category_rows(summary, REVENUE_CODES),
        ex \in get_sorted_category_rows(summary, EXPENSE_CODES)}

(***************************************************************************)
(* Uploaded files the specifications draw their inputs from.               *)
(***************************************************************************)
ALL_COLUMNS == HARD_REQUIRED_COLUMNS \cup OPTIONAL_STRING_COLUMNS \cup OPTIONAL_BOOL_COLUMNS

RawRow(y, code, label, amount, item, sponsor) ==
    [Year |-> y, Month |-> Num(1), Amount |-> amount, Code |-> code, Label |-> label,
     Date |-> NA, Description |-> NA, Item |-> item, Event |-> NA, Location |-> NA,
     Purpose |-> NA, Sponsor |-> sponsor, Potential |-> NA, Needs |-> NA]

RowGift    == RawRow(Num(2024), "1", "Gifts", Num(10000), NA, " Acme ")
RowFund    == RawRow(Num(2024), "14", "Fundraising", Num(4000), "  ", NA)
RowMember  == RawRow(Num(2024), "2", "Membership fees received", Num(50000), NA, NA)
RowRefund  == RawRow(Num(2024), "2", "Membership refunds", Num(-45000), NA, NA)
RowTickets == RawRow(Num(2024), "9", "Gross receipts", Num(7000), "Tickets", NA)
RowPledge  == RawRow(Num(2024), "1", "Gifts", Num(-2500), "Gala", NA)
RowPaper   == [RawRow(Num(2024), "18", "Office expenses", Num(1500), "Paper", NA)
                  EXCEPT !.Needs = "Yes"]
RowEvent   == [RawRow(Num(2024), "16", "Disbursements to/for members", Num(20000), NA, NA)
                  EXCEPT !.Date = "2024-05-01", !.Event = "Picnic"]
RowGrant   == RawRow(Num(2024), "1", "Gifts", Num(3000), NA, "Beta")
RowNext    == RawRow(Num(2025), "2", "Membership fees received", Num(30000), NA, NA)
RowUnknown == RawRow(Num(2024), "5", "Unknown", Num(100), NA, NA)

File(cols, rows) == [columns |-> cols, rows |-> rows]

FileA       == File(ALL_COLUMNS, <<RowGift, RowFund>>)
FileB       == File(HARD_REQUIRED_COLUMNS, <<RowMember>>)
FileRefund  == File(ALL_COLUMNS, <<RowRefund>>)
FileTickets == File(ALL_COLUMNS, <<RowTickets, RowPledge>>)
FileOffice  == File(ALL_COLUMNS, <<RowGrant, RowPaper, RowEvent>>)
FileEmpty   == File(ALL_COLUMNS, <<>>)
FileNext    == File(ALL_COLUMNS, <<RowNext>>)
FileUnknown == File(ALL_COLUMNS, <<RowUnknown>>)
FileNoAmountColumn == File(ALL_COLUMNS \ {"Amount"}, <<RowMember>>)
FileBadYear   == File(ALL_COLUMNS, <<[RowMember EXCEPT !.Year = NotANumber]>>)
FileBadMonth  == File(ALL_COLUMNS, <<[RowMember EXCEPT !.Month = NotANumber]>>)
FileBadAmount == File(ALL_COLUMNS, <<[RowMember EXCEPT !.Amount = NotANumber]>>)

GoodFiles == {FileA, FileB, FileRefund, FileTickets, FileOffice, FileEmpty, FileNext}
BadFiles  == {FileUnknown, FileNoAmountColumn, FileBadYear, FileBadMonth, FileBadAmount}

SeqsUpTo(S, n) == UNION {[1..k -> S] : k \in 0..n}

\* One more file than the uploader check of line 511 admits
TooManyFiles == [i \in 1..(MAX_UPLOADED_FILES + 1) |-> FileEmpty]

FnUploads == SeqsUpTo(GoodFiles \cup BadFiles, MaxFnFiles) \cup {TooManyFiles}

\* Amounts handed to apply_gala_ticket_reclass / build_annual_report
FnAmounts == {-1000, 0, 12000, 60000}

(***************************************************************************)
(* FnSpec: the pipeline of lines 507-611, one function per step.           *)
(***************************************************************************)
NoYear == 0

FnInit ==
    /\ session_state = <<>>
    /\ uploaded_files \in FnUploads
    /\ gala_ticket_amount \in FnAmounts
    /\ editor_edits = <<>>
    /\ editor_data = <<>>
    /\ pc = "upload"
    /\ stopped_at = ""
    /\ year = NoYear
    /\ full_df = <<>>
    /\ raw_summary_df = <<>>
    /\ summary_df = <<>>
    /\ edited_summary_df = <<>>
    /\ report_built = FALSE
    /\ preview_text = <<>>
    /\ download_year = NoYear

\* Lines 507-526
FnLoad ==
    /\ pc = "upload"
    /\ IF upload_stop(uploaded_files) # ""
       THEN /\ pc' = "stopped"
            /\ stopped_at' = upload_stop(uploaded_files)
            /\ UNCHANGED full_df
       ELSE /\ pc' = "merged"
            /\ full_df' = concat_files(uploaded_files)
            /\ UNCHANGED stopped_at
    /\ UNCHANGED <<session_state, uploaded_files, editor_edits, editor_data, year,
                   gala_ticket_amount, raw_summary_df, summary_df, edited_summary_df,
                   report_built, preview_text, download_year>>

\* Line 528
FnValidateYear ==
    /\ pc = "merged"
    /\ IF validate_year_stops(full_df)
       THEN /\ pc' = "stopped"
            /\ stopped_at' = "validate_year"
            /\ UNCHANGED year
       ELSE /\ pc' = "year_ok"
            /\ year' = validate_year(full_df)
            /\ UNCHANGED stopped_at
    /\ UNCHANGED <<session_state, uploaded_files, editor_edits, editor_data, full_df,
                   gala_ticket_amount, raw_summary_df, summary_df, edited_summary_df,
                   report_built, preview_text, download_year>>

\* Line 529
FnValidateCategories ==
    /\ pc = "year_ok"
    /\ IF validate_categories_stops(full_df)
       THEN pc' = "stopped" /\ stopped_at' = "validate_categories"
       ELSE pc' = "validated" /\ UNCHANGED stopped_at
    /\ UNCHANGED <<session_state, uploaded_files, editor_edits, editor_data, year,
                   full_df, gala_ticket_amount, raw_summary_df, summary_df,
                   edited_summary_df, report_built, preview_text, download_year>>

\* Line 577
FnBuildSummary ==
    /\ pc = "validated"
    /\ pc' = "built"
    /\ raw_summary_df' \in build_summary_table(full_df)
    /\ UNCHANGED <<session_state, uploaded_files, editor_edits, editor_data, stopped_at,
                   year, full_df, gala_ticket_amount, summary_df, edited_summary_df,
                   report_built, preview_text, download_year>>

\* Line 580.  raw_summary_df is the caller's frame: the call that stops leaves it as
\* it was, the call that returns hands back summary_df.
FnReclass ==
    /\ pc = "built"
    /\ \E out \in apply_gala_ticket_reclass(raw_summary_df, gala_ticket_amount) :
          IF out.stop # ""
          THEN /\ pc' = "stopped"
               /\ stopped_at' = out.stop
               /\ UNCHANGED summary_df
          ELSE /\ pc' = "reclassed"
               /\ summary_df' = out.df
               /\ UNCHANGED stopped_at
    /\ UNCHANGED <<session_state, uploaded_files, editor_edits, editor_data, year,
                   full_df, gala_ticket_amount, raw_summary_df, edited_summary_df,
                   report_built, preview_text, download_year>>

\* Lines 606-611, on the summary as apply_gala_ticket_reclass returned it
FnRender ==
    /\ pc = "reclassed"
    /\ pc' = "rendered"
    /\ report_built' = TRUE
    /\ preview_text' \in build_annual_report(year, summary_df, full_df, gala_ticket_amount)
    /\ UNCHANGED <<session_state, uploaded_files, editor_edits, editor_data, stopped_at,
                   year, full_df, gala_ticket_amount, raw_summary_df, summary_df,
                   edited_summary_df, download_year>>

FnNext ==
    \/ FnLoad
    \/ FnValidateYear
    \/ FnValidateCategories
    \/ FnBuildSummary
    \/ FnReclass
    \/ FnRender

FnSpec == FnInit /\ [][FnNext]_vars

(***************************************************************************)
(* Spec: the browser session.  st.session_state is a function from the     *)
(* keys present to their values.                                           *)
(***************************************************************************)
Put(s, k, v) == (k :> v) @@ s
Get(s, k, default) == IF k \in DOMAIN s THEN s[k] ELSE default

APP_PASSWORD == "secret"                 \* st.secrets["APP_PASSWORD"]
PasswordInputs == {"", "secret", "wrong"}

\* check_password: where it stops ("" = the script goes on) and the session it leaves
check_password(s, password) ==
    LET s1 == IF "password_correct" \notin DOMAIN s
              THEN Put(s, "password_correct", FALSE) ELSE s
    IN  IF s1["password_correct"] THEN [stop |-> "", session |-> s1]
        ELSE IF password = "" THEN [stop |-> "password_empty", session |-> s1]
        ELSE IF password = APP_PASSWORD
             THEN [stop |-> "", session |-> Put(s1, "password_correct", TRUE)]
        ELSE [stop |-> "password_incorrect", session |-> s1]

\* st.data_editor: the frame with the Adjusted cells the user has edited
data_editor(summary, edits) ==
    [i \in DOMAIN summary |->
        IF i \in DOMAIN edits THEN [summary[i] EXCEPT !.Adjusted = edits[i]]
        ELSE summary[i]]

\* Variant of Stopped in which the stored report is previewed before the run stops
Stopped_after_preview(stop, sess, y, df, amount, raw) ==
    /\ stopped_at' = stop
    /\ session_state' = sess
    /\ year' = y
    /\ full_df' = df
    /\ gala_ticket_amount' = amount
    /\ raw_summary_df' = raw
    /\ summary_df' = <<>>
    /\ edited_summary_df' = <<>>
    /\ editor_edits' = <<>>
    /\ editor_data' = <<>>
    /\ report_built' = FALSE
    /\ preview_text' = Get(sess, "annual_report_text", <<>>)
    /\ download_year' = IF Get(sess, "annual_report_text", <<>>) # <<>> THEN y ELSE NoYear

\* The run ends in st.stop(): nothing below the stop is executed or displayed, and
\* the widgets that were not rendered lose their state.
Stopped(stop, sess, y, df, amount, raw) ==
    /\ stopped_at' = stop
    /\ session_state' = sess
    /\ year' = y
    /\ full_df' = df
    /\ gala_ticket_amount' = amount
    /\ raw_summary_df' = raw
    /\ summary_df' = <<>>
    /\ edited_summary_df' = <<>>
    /\ editor_edits' = <<>>
    /\ editor_data' = <<>>
    /\ report_built' = FALSE
    /\ preview_text' = <<>>
    /\ download_year' = NoYear

\* Lines 589-637.  The editor keeps its edits while it is rendered with the same
\* frame; the stored text is previewed and offered for download when not empty.
Completed(sess, y, df, amount, raw, summ, edits, clicked) ==
    LET kept   == IF editor_data = summ THEN edits ELSE <<>>
        edited == data_editor(summ, kept)
        s3     == IF "annual_report_text" \notin DOMAIN sess
                  THEN Put(sess, "annual_report_text", <<>>) ELSE sess
        texts  == IF clicked
                  THEN build_annual_report(y, edited, df, Get(s3, "gala_ticket_amount", 0))
                  ELSE {s3["annual_report_text"]}
    IN  \E text \in texts :
          /\ stopped_at' = ""
          /\ session_state' = Put(s3, "annual_report_text", text)
          /\ year' = y
          /\ full_df' = df
          /\ gala_ticket_amount' = amount
          /\ raw_summary_df' = raw
          /\ summary_df' = summ
          /\ edited_summary_df' = edited
          /\ editor_edits' = kept
          /\ editor_data' = summ
          /\ report_built' = clicked
          /\ preview_text' = text
          /\ download_year' = IF text # <<>> THEN y ELSE NoYear

\* One execution of the script, top to bottom, with the widget values given
ScriptRun(password, files, amount, edits, clicked) ==
    LET gate == check_password(session_state, password)
        df   == concat_files(files)
    IN  IF gate.stop # ""
        THEN Stopped(gate.stop, gate.session, NoYear, <<>>, 0, <<>>)
        ELSE IF upload_stop(files) # ""
        THEN Stopped(upload_stop(files), gate.session, NoYear, <<>>, 0, <<>>)
        ELSE IF validate_year_stops(df)
        THEN Stopped("validate_year", gate.session, NoYear, df, 0, <<>>)
        ELSE IF validate_categories_stops(df)
        THEN Stopped("validate_categories", gate.session, validate_year(df), df, 0, <<>>)
        ELSE LET sess == Put(gate.session, "gala_ticket_amount", amount)
             IN  \E raw \in build_summary_table(df) :
                 \E out \in apply_gala_ticket_reclass(raw, amount) :
                    IF out.stop # ""
                    THEN Stopped(out.stop, sess, validate_year(df), df, amount, raw)
                    ELSE Completed(sess, validate_year(df), df, amount, raw, out.df,
                                   edits, clicked)

\* Files, amounts and cell values the user enters
SessionFiles == {FileB, FileRefund, FileNext}
SessionUploads ==
    SeqsUpTo(SessionFiles, MaxSessionFiles) \cup {<<f>> : f \in BadFiles \cup {FileEmpty}}
        \cup {TooManyFiles}
GalaInputs == {0, 12000, 30000}          \* number_input has min_value=0.0
EditValues == {12300}

\* The session after the page was opened: the first run stops at the password gate
Init ==
    /\ session_state = ("password_correct" :> FALSE)
    /\ uploaded_files = <<>>
    /\ editor_edits = <<>>
    /\ editor_data = <<>>
    /\ pc = "session"
    /\ stopped_at = "password_empty"
    /\ year = NoYear
    /\ full_df = <<>>
    /\ gala_ticket_amount = 0
    /\ raw_summary_df = <<>>
    /\ summary_df = <<>>
    /\ edited_summary_df = <<>>
    /\ report_built = FALSE
    /\ preview_text = <<>>
    /\ download_year = NoYear

PersistedGala == Get(session_state, "gala_ticket_amount", 0)

\* The user submits the password field
SubmitPassword(password) ==
    /\ pc = "session"
    /\ ~session_state["password_correct"]
    /\ ScriptRun(password, uploaded_files, PersistedGala, editor_edits, FALSE)
    /\ UNCHANGED <<uploaded_files, pc>>

\* The user changes the set of uploaded files
UploadFiles(files) ==
    /\ pc = "session"
    /\ session_state["password_correct"]
    /\ uploaded_files' = files
    /\ ScriptRun("", files, PersistedGala, editor_edits, FALSE)
    /\ UNCHANGED pc

\* The user changes the number_input (rendered when the last run got to line 552)
ChangeGalaAmount(amount) ==
    /\ pc = "session"
    /\ stopped_at \in {"", "gala_exceeds_raw"}
    /\ amount # gala_ticket_amount
    /\ ScriptRun("", uploaded_files, amount, editor_edits, FALSE)
    /\ UNCHANGED <<uploaded_files, pc>>

\* The user edits an Adjusted cell of the data_editor
EditSummary(i, v) ==
    /\ pc = "session"
    /\ stopped_at = ""
    /\ i \in DOMAIN summary_df
    /\ ScriptRun("", uploaded_files, PersistedGala, Put(editor_edits, i, v), FALSE)
    /\ UNCHANGED <<uploaded_files, pc>>

\* The user presses "Generate Annual Text Report"
PressGenerate ==
    /\ pc = "session"
    /\ stopped_at = ""
    /\ ScriptRun("", uploaded_files, PersistedGala, editor_edits, TRUE)
    /\ UNCHANGED <<uploaded_files, pc>>

Next ==
    \/ \E password \in PasswordInputs : SubmitPassword(password)
    \/ \E files \in SessionUploads : UploadFiles(files)
    \/ \E amount \in GalaInputs : ChangeGalaAmount(amount)
    \/ \E i \in 1..MaxEditRow, v \in EditValues : EditSummary(i, v)
    \/ PressGenerate

Spec == Init /\ [][Next]_vars

(***************************************************************************)
(* Properties.                                                             *)
(***************************************************************************)
\* Raw total / adjusted total of a category in a summary: the sum over the rows that
\* carry the code (0 when there is none)
RawTotal(summary, code) == SumRaw(SelectSeq(summary, LAMBDA r : r.Code = code))
AdjTotal(summary, code) == SumAdjusted(SelectSeq(summary, LAMBDA r : r.Code = code))

Codes(rows) == {rows[i].Code : i \in DOMAIN rows}

\* apply_gala_ticket_reclass has been called on raw_summary_df
ReclassCalled ==
    \/ pc \in {"reclassed", "rendered"}
    \/ pc = "stopped" /\ stopped_at \in {"gala_negative", "gala_exceeds_raw"}
ReclassReturned == pc \in {"reclassed", "rendered"}

\* C1: after a successful reclassification with 0 <= amount <= raw total of category 2,
\* the adjusted totals of 2 and 9 add up to their raw totals, the raw totals of 2 and 9
\* are what they were (0 for a synthesized row), and every other row is as it was.
C1_ReclassConservesPair ==
    (ReclassReturned /\ 0 <= gala_ticket_amount
        /\ gala_ticket_amount <= RawTotal(raw_summary_df, "2"))
    => /\ AdjTotal(summary_df, "2") + AdjTotal(summary_df, "9")
            = RawTotal(summary_df, "2") + RawTotal(summary_df, "9")
       /\ \A c \in {"2", "9"} : RawTotal(summary_df, c) = RawTotal(raw_summary_df, c)
       /\ \A r \in Range(summary_df) : r.Code \notin {"2", "9"} => r \in Range(raw_summary_df)
       /\ \A r \in Range(raw_summary_df) : r.Code \notin {"2", "9"} => r \in Range(summary_df)

\* C1 witness: a positive amount was moved into a synthesized category 9 row
C1_Witness ==
    /\ pc = "reclassed"
    /\ gala_ticket_amount > 0
    /\ gala_ticket_amount <= RawTotal(raw_summary_df, "2")
    /\ "9" \notin Codes(raw_summary_df)
    /\ \E r \in Range(raw_summary_df) : r.Code \notin {"2", "9"}

\* C2: the call stops whenever the amount is negative or exceeds the raw total of
\* category 2, and the summary passed in is then still the grouped raw data.
C2_ReclassGuardStops ==
    (ReclassCalled /\ (gala_ticket_amount < 0
                        \/ gala_ticket_amount > RawTotal(raw_summary_df, "2")))
    => /\ pc = "stopped"
       /\ Range(raw_summary_df) = summary_groups(full_df)

\* C3: with amount 0 the call returns and every row that was in the summary has the
\* Adjusted Total it had.
C3_ZeroAmountIsNoOp ==
    (ReclassCalled /\ gala_ticket_amount = 0)
    => /\ ReclassReturned
       /\ \A r \in Range(raw_summary_df) : r \in Range(summary_df)

\* validate_year has been called on full_df
YearValidated ==
    \/ pc \in {"year_ok", "validated", "built", "reclassed", "rendered"}
    \/ pc = "stopped" /\ stopped_at \in {"validate_year", "validate_categories",
                                         "gala_negative", "gala_exceeds_raw"}
YearRejected == pc = "stopped" /\ stopped_at = "validate_year"
DistinctYears == Cardinality({full_df[i].Year : i \in DOMAIN full_df})

\* C6 as stated: validate_year fails iff there are two or more distinct years, and
\* succeeds with that year iff there is exactly one.
C6_YearFailsIffSeveral ==
    YearValidated
    => /\ YearRejected <=> DistinctYears >= 2
       /\ ~YearRejected <=> DistinctYears = 1
       /\ ~YearRejected => \A i \in DOMAIN full_df : full_df[i].Year = year

\* C6 amended: validate_year fails iff the number of distinct years is not one (none,
\* as for header-only files, or several), and otherwise returns the single year.
C6_YearFailsUnlessOne ==
    YearValidated
    => /\ YearRejected <=> (full_df = <<>> \/ DistinctYears >= 2)
       /\ ~YearRejected <=> DistinctYears = 1
       /\ ~YearRejected => \A i \in DOMAIN full_df : full_df[i].Year = year

\* C6 witness: a merge of header-only files was rejected
C6_Witness ==
    /\ YearRejected
    /\ uploaded_files # <<>>
    /\ full_df = <<>>

\* C7: the summary after build_summary_table and apply_gala_ticket_reclass has exactly
\* one row for every code of the merged data and for 2 and 9, and is in ascending
\* order of the code.
C7_OneRowPerCodeSorted ==
    ReclassReturned
    => /\ \A c \in Codes(full_df) \cup {"2", "9"} :
              Cardinality({i \in DOMAIN summary_df : summary_df[i].Code = c}) = 1
       /\ Codes(summary_df) = Codes(full_df) \cup {"2", "9"}
       /\ \A i, j \in DOMAIN summary_df :
              i < j => ToNumeric[summary_df[i].Code] <= ToNumeric[summary_df[j].Code]

\* build_summary_table has been called on full_df
SummaryBuilt == pc = "built" \/ ReclassCalled

\* C8: the raw totals of the built summary add up to the amounts of the merged rows,
\* every adjusted total starts equal to the raw total, and the raw totals still add up
\* to the same sum after rows for 2 and 9 were synthesized.
C8_SummaryConservesTotal ==
    /\ SummaryBuilt
       => /\ SumRaw(raw_summary_df) = SumAmount(full_df)
          /\ \A r \in Range(raw_summary_df) : r.Adjusted = r.Raw
    /\ ReclassReturned => SumRaw(summary_df) = SumAmount(full_df)

\* C8 witness: a summary with a group of several rows, amounts of both signs, and a
\* synthesized row
C8_Witness ==
    /\ ReclassReturned
    /\ Len(summary_df) > Len(raw_summary_df)
    /\ Len(full_df) > Len(raw_summary_df)
    /\ \E i \in DOMAIN full_df : full_df[i].Amount < 0

\* The lines of a report between the line `first` and the blank line before `next`
IndexOf(lines, line) == CHOOSE i \in DOMAIN lines : lines[i] = line
Between(lines, first, next) ==
    SubSeq(lines, IndexOf(lines, first) + 1, IndexOf(lines, next) - 2)

ItemizedRevenueSection ==
    Between(preview_text, "ITEMIZED REVENUE", "Itemized Expenses (BY IRS CATEGORY)")
ItemizedExpenseSection ==
    Between(preview_text, "ITEMIZED EXPENSES",
            "NEEDS FURTHER INVESTIGATION (Treasurer Flagged)")

ExpenseRows == SelectSeq(full_df, LAMBDA r : r.Code \in EXPENSE_CODES)

\* The expense rows all lie outside category 16 and all have a blank itemization label
OnlyBlankExpenses ==
    /\ pc = "rendered"
    /\ ExpenseRows # <<>>
    /\ \A i \in DOMAIN ExpenseRows :
          ExpenseRows[i].Code # "16" /\ ExpenseRows[i].Item = ""

\* C9 as stated: the Itemized Expenses section then has, for each such category, a
\* detail line with the placeholder label and the summed amount.
C9_BlankExpensesShownAsUnlabeled ==
    OnlyBlankExpenses
    => \A c \in Codes(ExpenseRows) :
          \E k \in DOMAIN ItemizedExpenseSection :
              ItemizedExpenseSection[k]
                  = "    UNLABELED: " \o format_currency(SumAmount(rows_of_code(full_df, c)))

\* C9 amended: the Itemized Expenses section then has no category header and no detail
\* line; it consists of the line "  (No itemized expense entries.)".
C9_BlankExpensesSkipped ==
    OnlyBlankExpenses
    => ItemizedExpenseSection = <<"  (No itemized expense entries.)">>

\* C9 witness: scenario A was rendered (code 14, Fundraising, 40.00, blank label)
C9_Witness ==
    /\ OnlyBlankExpenses
    /\ \E i \in DOMAIN full_df :
          /\ full_df[i].Code = "14"
          /\ full_df[i].Label = "Fundraising"
          /\ full_df[i].Amount = 4000

Category9Rows == rows_of_code(full_df, "9")
Category9Header ==
    "  Category 9 " \o EnDash \o " "
        \o (IF Category9Rows = <<>> THEN CATEGORY_LABELS["9"] ELSE Category9Rows[1].Label)
        \o ":"

\* C10: a report rendered with a positive amount has, in Itemized Revenue, the
\* Category 9 header (canonical label when there are no category 9 rows), right after it
\* the Gala Tickets line, and after that line the detail lines of category 9; in
\* scenario B (raw 500.00 in category 2, amount 120.00) the summary handed to the
\* renderer has adjusted 380.00 for 2 and raw + 120.00 for 9.
C10_GalaLineLeadsCategory9 ==
    (pc = "rendered" /\ gala_ticket_amount > 0)
    => /\ \E k \in 1..(Len(ItemizedRevenueSection) - 1) :
              /\ ItemizedRevenueSection[k] = Category9Header
              /\ ItemizedRevenueSection[k + 1]
                     = "    Gala Tickets: " \o format_currency(gala_ticket_amount)
              /\ SubSeq(ItemizedRevenueSection, k + 2, Len(ItemizedRevenueSection))
                     = item_lines(Category9Rows)
       /\ gala_ticket_amount = 12000
              => \E k \in DOMAIN ItemizedRevenueSection :
                     ItemizedRevenueSection[k] = "    Gala Tickets: $120.00"
       /\ (gala_ticket_amount = 12000 /\ RawTotal(raw_summary_df, "2") = 50000)
              => /\ AdjTotal(summary_df, "2") = 38000
                 /\ AdjTotal(summary_df, "9") = RawTotal(summary_df, "9") + 12000

\* C10 witness: scenario B rendered without any category 9 transaction
C10_Witness ==
    /\ pc = "rendered"
    /\ gala_ticket_amount = 12000
    /\ RawTotal(raw_summary_df, "2") = 50000
    /\ Category9Rows = <<>>

\* C4: whenever a report text is previewed or offered for download, it is a text
\* build_annual_report returns for the year, merged rows, edited summary and amount of
\* that run, and the download file name carries the year the text was rendered for.
C4_ReportIsDerived ==
    (pc = "session" /\ preview_text # <<>>)
    => /\ preview_text \in build_annual_report(year, edited_summary_df, full_df,
                                               gala_ticket_amount)
       /\ preview_text[1] = header_lines(download_year)[1]

\* The st.stop() calls of the validation steps
ValidationStops ==
    {"too_many_files", "missing_columns", "invalid_year", "invalid_month",
     "invalid_amount", "validate_year", "validate_categories",
     "gala_negative", "gala_exceeds_raw"}

\* C5: a run that stops at a validation step does not invoke build_annual_report, does
\* not write annual_report_text, and shows no preview and no download.
C5_FailFast ==
    [][(pc = "session" /\ stopped_at' \in ValidationStops)
        => /\ ~report_built'
           /\ preview_text' = <<>>
           /\ download_year' = NoYear
           /\ ("annual_report_text" \in DOMAIN session_state')
                  = ("annual_report_text" \in DOMAIN session_state)
           /\ Get(session_state', "annual_report_text", <<>>)
                  = Get(session_state, "annual_report_text", <<>>)]_vars

\* C5 witness: a run stopped at a validation step while the session holds a report
C5_Witness ==
    /\ pc = "session"
    /\ stopped_at \in ValidationStops
    /\ Get(session_state, "annual_report_text", <<>>) # <<>>

\* The header line the Itemized Revenue section gives revenue category c
RevenueHeader(c) ==
    "  Category " \o c \o " " \o EnDash \o " "
        \o (IF rows_of_code(full_df, c) = <<>> THEN CATEGORY_LABELS[c]
            ELSE rows_of_code(full_df, c)[1].Label)
        \o ":"

Category1Rows == rows_of_code(full_df, "1")
SponsorNames == {Category1Rows[i].Sponsor : i \in DOMAIN Category1Rows} \ {""}

\* The detail lines of Category 1: from its header to the header of the next category
Category1Detail ==
    LET sec  == ItemizedRevenueSection
        next == CHOOSE k \in DOMAIN sec :
                    /\ \E c \in REVENUE_CODES \ {"1"} : sec[k] = RevenueHeader(c)
                    /\ \A j \in 2..(k - 1) :
                          \A c \in REVENUE_CODES \ {"1"} : sec[j] # RevenueHeader(c)
    IN  SubSeq(sec, 2, next - 1)

\* One line per sponsor name, ascending, with the summed amount
ExpectedSponsorLines ==
    LET names == sorted_strings(SponsorNames)
    IN  [k \in DOMAIN names |->
            "    " \o names[k] \o ": "
                \o format_currency(SumAmount(SelectSeq(Category1Rows,
                                      LAMBDA r : r.Sponsor = names[k])))]

Category1Rendered ==
    /\ pc = "rendered"
    /\ Category1Rows # <<>>
    /\ ItemizedRevenueSection[1] = RevenueHeader("1")

\* C11 as stated: with a sponsor name in category 1 the detail is one line per sponsor
\* name, ascending, with the summed amount; without any, the detail is one line per
\* itemization label (blank as the placeholder) with the summed amount.
C11_SponsorsOrItemLabels ==
    (pc = "rendered" /\ Category1Rows # <<>>)
    => /\ Category1Rendered
       /\ Category1Detail = IF SponsorNames # {} THEN ExpectedSponsorLines
                            ELSE item_lines(Category1Rows)

\* C11 amended: with a sponsor name the detail is one line per sponsor name, ascending,
\* with the summed amount; without any, it is the single line
\* "    (No sponsor names recorded.)".
C11_SponsorsOrNotice ==
    (pc = "rendered" /\ Category1Rows # <<>>)
    => /\ Category1Rendered
       /\ Category1Detail = IF SponsorNames # {} THEN ExpectedSponsorLines
                            ELSE <<"    (No sponsor names recorded.)">>

\* C11 witness: category 1 was rendered without any sponsor name
C11_Witness ==
    /\ Category1Rendered
    /\ SponsorNames = {}
    /\ \E i \in DOMAIN Category1Rows : Category1Rows[i].Item # ""

\* The run got to the data_editor: summary_df is the frame handed to it
EditorShown == pc = "session" /\ stopped_at = ""

\* C12: in every run the summary handed to the editor is rebuilt from the merged rows
\* before the amount of that run is applied: raw totals are those of the merged rows,
\* adjusted 2 is raw 2 minus the amount, adjusted 9 is raw 9 plus the amount, and every
\* other row has adjusted equal to raw, whatever the amounts of earlier runs were.
C12_RecomputeThenReapply ==
    EditorShown
    => /\ \A c \in Codes(summary_df) :
              RawTotal(summary_df, c) = SumAmount(rows_of_code(full_df, c))
       /\ AdjTotal(summary_df, "2") = RawTotal(summary_df, "2") - gala_ticket_amount
       /\ AdjTotal(summary_df, "9") = RawTotal(summary_df, "9") + gala_ticket_amount
       /\ \A r \in Range(summary_df) : r.Code \notin {"2", "9"} => r.Adjusted = r.Raw

\* C12 witness: the editor is shown for amount 300.00 in a session whose stored report
\* was generated by an earlier run for amount 120.00
C12_Witness ==
    /\ EditorShown
    /\ gala_ticket_amount = 30000
    /\ \E k \in DOMAIN Get(session_state, "annual_report_text", <<>>) :
          session_state["annual_report_text"][k] = "    Gala Tickets: $120.00"

\* C13: whenever the reclassification went through, the amount is at most the sum of
\* Amount over the merged rows of category 2.
C13_NeverMoreThanCategory2 ==
    EditorShown => gala_ticket_amount <= cat2_raw_total(full_df)

====
